---- MODULE Spec2Model ----
(***************************************************************************)
(* Boost.Compute: the reference-counted wrapper boost::compute::program    *)
(* (include/boost/compute/program.hpp) and the dispatch of stable_sort     *)
(* (include/boost/compute/algorithm/stable_sort.hpp).                      *)
(*                                                                         *)
(* Spec      the life cycle of program objects over the OpenCL runtime's   *)
(*           reference counts, and program::build.                         *)
(* SpecSort  stable_sort applied to a bounded range.                       *)
(***************************************************************************)
EXTENDS Integers, Sequences, FiniteSets, TLC

\* ------------------------------------------------------------------ bounds
\* Number of program objects (C++ objects, by address) that can exist.
MaxObjs == 3
\* Number of distinct cl_program handles the runtime can hand out.
MaxHandles == 2
\* Longest range handed to stable_sort.
MaxLen == 3

\* --------------------------------------------------------------- constants
\* The null cl_program (program.hpp: m_program(0)).
NULL == 0
\* cl_int CL_SUCCESS.
CL_SUCCESS == 0

Objs == 1 .. MaxObjs
Handles == 1 .. MaxHandles

\* Return codes clBuildProgram can produce for a valid program object:
\* CL_SUCCESS, CL_BUILD_PROGRAM_FAILURE, CL_INVALID_BUILD_OPTIONS.
BuildCodes == {CL_SUCCESS, -11, -43}
\* Return codes of clBuildProgram for a handle that is not a valid program
\* object: CL_INVALID_PROGRAM.
InvalidCodes == {-44}
\* Error code of a failed clCreateProgramWithSource: CL_OUT_OF_RESOURCES.
CreateCodes == {-5}
\* The std::string values passed as build options.
OptionStrings == {"", "-w"}

VARIABLES
    live,        \* live[o]: object o has been constructed and not destroyed
    m_program,   \* m_program[o]: the cl_program member of object o
    refcount,    \* refcount[h]: the runtime's reference count of handle h
    calls,       \* runtime calls made by the latest operation, in order
    invalid,     \* the latest operation retained or released a handle that
                 \* is not a valid program object (its count is zero)
    aborted,     \* the process ended in such a call
    lastOp,      \* the latest operation and its arguments
    built,       \* arguments and return code of the latest clBuildProgram
    thrown,      \* the opencl_error thrown by the latest operation, if any
    pc,          \* stable_sort: "start" before the call, "done" after
    iter,        \* stable_sort: iterator type of first/last
    T,           \* stable_sort: value type of the range
    cmp,         \* stable_sort: type of the comparator argument
    input,       \* stable_sort: the range before the call
    data,        \* stable_sort: the range [first, last)
    path         \* stable_sort: the algorithms the call dispatched to

progVars == <<live, m_program, refcount, calls, invalid, aborted, lastOp, built,
              thrown>>
sortVars == <<pc, iter, T, cmp, input, data, path>>
vars == <<live, m_program, refcount, calls, invalid, aborted, lastOp, built,
          thrown, pc, iter, T, cmp, input, data, path>>

\* ------------------------------------------------------- the OpenCL runtime
\* The runtime's view: reference counts, the calls received, and whether a
\* call named a handle that is not a valid program object.
Driver(rc) == [rc |-> rc, calls |-> <<>>, invalid |-> FALSE]

Call(fn, h) == [fn |-> fn, h |-> h]

\* clRetainProgram(h): increments the count of a valid program object. For
\* a handle that is not one the counts stay as they are and the call is
\* marked invalid; what the process does then is chosen in Finish.
clRetainProgram(d, h) ==
    [rc      |-> IF h \in Handles /\ d.rc[h] > 0
                 THEN [d.rc EXCEPT ![h] = @ + 1] ELSE d.rc,
     calls   |-> Append(d.calls, Call("clRetainProgram", h)),
     invalid |-> d.invalid \/ ~(h \in Handles /\ d.rc[h] > 0)]

\* clReleaseProgram(h): decrements the count of a valid program object (the
\* object is deleted at zero). For a handle that is not one the counts stay
\* as they are and the call is marked invalid.
clReleaseProgram(d, h) ==
    [rc      |-> IF h \in Handles /\ d.rc[h] > 0
                 THEN [d.rc EXCEPT ![h] = @ - 1] ELSE d.rc,
     calls   |-> Append(d.calls, Call("clReleaseProgram", h)),
     invalid |-> d.invalid \/ ~(h \in Handles /\ d.rc[h] > 0)]

NoThrow == [raised |-> FALSE, code |-> CL_SUCCESS]
opencl_error(code) == [raised |-> TRUE, code |-> code]

NoBuild == [called |-> FALSE, options |-> "", null |-> TRUE, str |-> "",
            ret |-> CL_SUCCESS]

Op(op, self, other, handle, retain) ==
    [op |-> op, self |-> self, other |-> other, handle |-> handle,
     retain |-> retain]

\* Handles a caller can name: the null handle and those some live object
\* returns from get().
KnownHandles == {NULL} \cup {m_program[o] : o \in {p \in Objs : live[p]}}

\* Common tail of the life-cycle operations: the runtime state after the
\* operation, no build, nothing thrown.  A retain or release of a released
\* program object is undefined: the runtime may answer CL_INVALID_PROGRAM
\* and the program go on, or the process may end there (in ~program() also
\* by BOOST_COMPUTE_ASSERT_CL_SUCCESS).
Finish(d, op) ==
    /\ refcount' = d.rc
    /\ calls' = d.calls
    /\ invalid' = d.invalid
    /\ aborted' \in (IF d.invalid THEN BOOLEAN ELSE {FALSE})
    /\ lastOp' = op
    /\ built' = NoBuild
    /\ thrown' = NoThrow
    /\ UNCHANGED sortVars

\* ------------------------------------------------- program: the life cycle
\* program(): a null program object.
program_default(o) ==
    /\ ~aborted
    /\ ~live[o]
    /\ live' = [live EXCEPT ![o] = TRUE]
    /\ m_program' = [m_program EXCEPT ![o] = NULL]
    /\ Finish(Driver(refcount), Op("program()", o, o, NULL, FALSE))

\* Mutant of program_handle: the retain flag is ignored.
program_handle_always_retains(o, h, retain) ==
    /\ ~aborted
    /\ ~live[o]
    /\ h \in KnownHandles
    /\ live' = [live EXCEPT ![o] = TRUE]
    /\ m_program' = [m_program EXCEPT ![o] = h]
    /\ LET d0 == Driver(refcount)
           d1 == IF h # NULL THEN clRetainProgram(d0, h) ELSE d0
       IN  Finish(d1, Op("program(handle)", o, o, h, retain))

\* program(cl_program program, bool retain = true)
program_handle(o, h, retain) ==
    /\ ~aborted
    /\ ~live[o]
    /\ h \in KnownHandles
    /\ live' = [live EXCEPT ![o] = TRUE]
    /\ m_program' = [m_program EXCEPT ![o] = h]
    /\ LET d0 == Driver(refcount)
           d1 == IF h # NULL /\ retain THEN clRetainProgram(d0, h) ELSE d0
       IN  Finish(d1, Op("program(handle)", o, o, h, retain))

\* Mutant of program_copy: the handle is copied without a retain.
program_copy_no_retain(o, other) ==
    /\ ~aborted
    /\ ~live[o]
    /\ live[other]
    /\ live' = [live EXCEPT ![o] = TRUE]
    /\ m_program' = [m_program EXCEPT ![o] = m_program[other]]
    /\ Finish(Driver(refcount),
              Op("program(copy)", o, other, m_program[other], FALSE))

\* program(const program &other)
program_copy(o, other) ==
    /\ ~aborted
    /\ ~live[o]
    /\ live[other]
    /\ live' = [live EXCEPT ![o] = TRUE]
    /\ m_program' = [m_program EXCEPT ![o] = m_program[other]]
    /\ LET d0 == Driver(refcount)
           d1 == IF m_program[other] # NULL
                 THEN clRetainProgram(d0, m_program[other]) ELSE d0
       IN  Finish(d1, Op("program(copy)", o, other, m_program[other], FALSE))

\* Mutant of copy_assign: no test for self-assignment.
copy_assign_no_self_test(a, b) ==
    /\ ~aborted
    /\ live[a]
    /\ live[b]
    /\ UNCHANGED live
    /\ LET d0 == Driver(refcount)
           old == m_program[a]
           new == m_program[b]
           d1 == IF old # NULL THEN clReleaseProgram(d0, old) ELSE d0
           d2 == IF new # NULL THEN clRetainProgram(d1, new) ELSE d1
       IN  /\ m_program' = [m_program EXCEPT ![a] = new]
           /\ Finish(d2, Op("operator=(copy)", a, b, old, FALSE))

\* program& operator=(const program &other)
copy_assign(a, b) ==
    /\ ~aborted
    /\ live[a]
    /\ live[b]
    /\ UNCHANGED live
    /\ LET d0 == Driver(refcount)
           old == m_program[a]
           new == m_program[b]
           d1 == IF old # NULL THEN clReleaseProgram(d0, old) ELSE d0
           d2 == IF new # NULL THEN clRetainProgram(d1, new) ELSE d1
       IN  IF a # b
           THEN /\ m_program' = [m_program EXCEPT ![a] = new]
                /\ Finish(d2, Op("operator=(copy)", a, b, old, FALSE))
           ELSE /\ UNCHANGED m_program
                /\ Finish(d0, Op("operator=(copy)", a, b, old, FALSE))

\* program(program&& other)
program_move(o, other) ==
    /\ ~aborted
    /\ ~live[o]
    /\ live[other]
    /\ live' = [live EXCEPT ![o] = TRUE]
    /\ m_program' = [m_program EXCEPT ![o] = m_program[other], ![other] = NULL]
    /\ Finish(Driver(refcount),
              Op("program(move)", o, other, m_program[other], FALSE))

\* program& operator=(program&& other); the code has no self-assignment
\* test: the assignments run in order, also when other is *this.
move_assign(a, b) ==
    /\ ~aborted
    /\ live[a]
    /\ live[b]
    /\ UNCHANGED live
    /\ LET d0 == Driver(refcount)
           old == m_program[a]
           d1 == IF old # NULL THEN clReleaseProgram(d0, old) ELSE d0
           m1 == [m_program EXCEPT ![a] = m_program[b]]
           m2 == [m1 EXCEPT ![b] = NULL]
       IN  /\ m_program' = m2
           /\ Finish(d1, Op("operator=(move)", a, b, old, FALSE))

\* ~program()
program_destroy(o) ==
    /\ ~aborted
    /\ live[o]
    /\ live' = [live EXCEPT ![o] = FALSE]
    /\ UNCHANGED m_program
    /\ LET d0 == Driver(refcount)
           d1 == IF m_program[o] # NULL
                 THEN clReleaseProgram(d0, m_program[o]) ELSE d0
       IN  Finish(d1, Op("~program()", o, o, m_program[o], FALSE))

\* static program create_with_source(source, context): the runtime either
\* creates a program object (a handle not in use, count one; the handle of
\* a deleted program object may be handed out again) or returns a null
\* handle and an error code; the result is program(program_, false).
create_with_source(o, h, ok, error) ==
    /\ ~aborted
    /\ ~live[o]
    /\ refcount[h] = 0
    /\ IF ok
       THEN /\ live' = [live EXCEPT ![o] = TRUE]
            /\ m_program' = [m_program EXCEPT ![o] = h]
            /\ refcount' = [refcount EXCEPT ![h] = 1]
            /\ calls' = <<Call("clCreateProgramWithSource", h)>>
            /\ thrown' = NoThrow
            /\ lastOp' = Op("create_with_source", o, o, h, FALSE)
       ELSE /\ UNCHANGED <<live, m_program, refcount>>
            /\ calls' = <<Call("clCreateProgramWithSource", NULL)>>
            /\ thrown' = opencl_error(error)
            /\ lastOp' = Op("create_with_source", o, o, NULL, FALSE)
    /\ invalid' = FALSE
    /\ aborted' = FALSE
    /\ built' = NoBuild
    /\ UNCHANGED sortVars

\* ------------------------------------------------------- program::build
\* The options pointer build() hands to clBuildProgram.
options_string(options) ==
    IF options # "" THEN [null |-> FALSE, str |-> options]
                    ELSE [null |-> TRUE, str |-> ""]

\* Mutant of build_result: only a compilation failure
\* (CL_BUILD_PROGRAM_FAILURE) is turned into an exception.
build_result_compile_failure_only(ret) ==
    IF ret = -11 THEN opencl_error(ret) ELSE NoThrow

\* What build() does with the return code of clBuildProgram.
build_result(ret) ==
    IF ret # CL_SUCCESS THEN opencl_error(ret) ELSE NoThrow

\* void build(const std::string &options = std::string())
build(o, options, ret) ==
    /\ ~aborted
    /\ live[o]
    /\ IF m_program[o] # NULL /\ refcount[m_program[o]] > 0
       THEN ret \in BuildCodes
       ELSE ret \in InvalidCodes
    /\ built' = [called  |-> TRUE,
                 options |-> options,
                 null   |-> options_string(options).null,
                 str    |-> options_string(options).str,
                 ret    |-> ret]
    /\ thrown' = build_result(ret)
    /\ calls' = <<Call("clBuildProgram", m_program[o])>>
    /\ invalid' = FALSE
    /\ aborted' = FALSE
    /\ lastOp' = Op("build", o, o, m_program[o], FALSE)
    /\ UNCHANGED <<live, m_program, refcount>>
    /\ UNCHANGED sortVars

\* ------------------------------------------------------------ stable_sort
\* Values are bit patterns of a two-bit type; what they mean depends on T.
Bits == 0 .. 3

IteratorTypes == {"buffer_iterator", "transform_iterator"}
\* int_: two's complement.  float_: sign and magnitude, so that +0 and -0
\* are different patterns.  pair_: a two-member struct ordered on its first
\* member.
ValueTypes == {"int_", "float_", "pair_"}
\* less<T>, greater<T>, and a user function object ordering as less<T>.
CompareTypes == {"less", "greater", "function"}

\* is_radix_sortable<T>: the scalar, non-vector types.
is_radix_sortable(t) == t \in {"int_", "float_"}

\* The value a bit pattern stands for when it is compared.
Value(t, b) ==
    CASE t = "int_"   -> IF b >= 2 THEN b - 4 ELSE b
      [] t = "float_" -> IF b >= 2 THEN 0 - (b - 2) ELSE b
      [] OTHER        -> b \div 2

\* compare(a, b) for the comparator types.
Compare(c, t, a, b) ==
    IF c = "greater" THEN Value(t, a) > Value(t, b)
                     ELSE Value(t, a) < Value(t, b)

\* The unsigned key radix_sort orders a value by: the sign bit flipped for a
\* signed integer; for a floating-point value every bit flipped when the
\* sign bit is set and the sign bit flipped otherwise.
RadixKey(t, b) ==
    CASE t = "float_" -> IF b >= 2 THEN 3 - b ELSE b + 2
      [] OTHER        -> (b + 2) % 4

\* The elements of s, in order, whose key has bit `bit` equal to v.
RECURSIVE Bucket(_, _, _, _)
Bucket(s, t, bit, v) ==
    IF s = <<>> THEN <<>>
    ELSE LET digit == (RadixKey(t, Head(s)) \div (2 ^ bit)) % 2
         IN  IF digit = v THEN <<Head(s)>> \o Bucket(Tail(s), t, bit, v)
                          ELSE Bucket(Tail(s), t, bit, v)

\* detail::radix_sort: one counting pass per key bit, low bit first, each
\* pass keeping the order of the elements that share the digit.
radix_sort(s, t) ==
    LET pass(x, bit) == Bucket(x, t, bit, 0) \o Bucket(x, t, bit, 1)
    IN  pass(pass(s, 0), 1)

\* reverse(first, last)
RECURSIVE reverse(_)
reverse(s) ==
    IF s = <<>> THEN <<>> ELSE Append(reverse(Tail(s)), Head(s))

\* Insertion of value x into the sorted prefix s: x moves left past every
\* element it compares before.
RECURSIVE Insert(_, _, _, _)
Insert(s, x, c, t) ==
    IF s # <<>> /\ Compare(c, t, x, s[Len(s)])
    THEN Append(Insert(SubSeq(s, 1, Len(s) - 1), x, c, t), s[Len(s)])
    ELSE Append(s, x)

\* detail::serial_insertion_sort
RECURSIVE InsertFrom(_, _, _, _)
InsertFrom(sorted, rest, c, t) ==
    IF rest = <<>> THEN sorted
    ELSE InsertFrom(Insert(sorted, Head(rest), c, t), Tail(rest), c, t)

serial_insertion_sort(s, c, t) == InsertFrom(<<>>, s, c, t)

\* Mutant of dispatch_stable_sort: the radix-sort overloads lack the
\* enable_if on is_radix_sortable.
dispatch_without_enable_if(i, t, c) ==
    IF i = "buffer_iterator" /\ c = "less"
    THEN <<"radix_sort">>
    ELSE IF i = "buffer_iterator" /\ c = "greater"
    THEN <<"radix_sort", "reverse">>
    ELSE <<"serial_insertion_sort">>

\* detail::dispatch_stable_sort: the overload chosen for the argument types,
\* as the algorithms it calls in order.
dispatch_stable_sort(i, t, c) ==
    IF i = "buffer_iterator" /\ is_radix_sortable(t) /\ c = "less"
    THEN <<"radix_sort">>
    ELSE IF i = "buffer_iterator" /\ is_radix_sortable(t) /\ c = "greater"
    THEN <<"radix_sort", "reverse">>
    ELSE <<"serial_insertion_sort">>

\* The range after the algorithms of p ran in order.
RECURSIVE Run(_, _, _, _)
Run(p, s, c, t) ==
    IF p = <<>> THEN s
    ELSE LET r == CASE Head(p) = "radix_sort" -> radix_sort(s, t)
                    [] Head(p) = "reverse"    -> reverse(s)
                    [] OTHER                  -> serial_insertion_sort(s, c, t)
         IN  Run(Tail(p), r, c, t)

\* stable_sort(first, last, compare, queue)
stable_sort ==
    /\ pc = "start"
    /\ path' = dispatch_stable_sort(iter, T, cmp)
    /\ data' = Run(dispatch_stable_sort(iter, T, cmp), data, cmp, T)
    /\ pc' = "done"
    /\ UNCHANGED <<iter, T, cmp, input>>
    /\ UNCHANGED progVars

\* stable_sort(first, last, queue): the comparator is less<value_type>.
stable_sort_default ==
    /\ pc = "start"
    /\ cmp = "less"
    /\ path' = dispatch_stable_sort(iter, T, "less")
    /\ data' = Run(dispatch_stable_sort(iter, T, "less"), data, "less", T)
    /\ pc' = "overload done"
    /\ UNCHANGED <<iter, T, cmp, input>>
    /\ UNCHANGED progVars

\* ---------------------------------------------------------- specifications
Ranges == UNION {[1 .. n -> Bits] : n \in 0 .. MaxLen}

ProgInit ==
    /\ live = [o \in Objs |-> FALSE]
    /\ m_program = [o \in Objs |-> NULL]
    /\ refcount = [h \in Handles |-> 0]
    /\ calls = <<>>
    /\ invalid = FALSE
    /\ aborted = FALSE
    /\ lastOp = Op("none", 1, 1, NULL, FALSE)
    /\ built = NoBuild
    /\ thrown = NoThrow

Init ==
    /\ ProgInit
    /\ pc = "idle"
    /\ iter = "buffer_iterator"
    /\ T = "int_"
    /\ cmp = "less"
    /\ input = <<>>
    /\ data = <<>>
    /\ path = <<>>

Next ==
    \/ \E o \in Objs : program_default(o)
    \/ \E o \in Objs, h \in Handles \cup {NULL}, retain \in BOOLEAN :
          program_handle(o, h, retain)
    \/ \E o \in Objs, other \in Objs : program_copy(o, other)
    \/ \E a \in Objs, b \in Objs : copy_assign(a, b)
    \/ \E o \in Objs, other \in Objs : program_move(o, other)
    \/ \E a \in Objs, b \in Objs : move_assign(a, b)
    \/ \E o \in Objs : program_destroy(o)
    \/ \E o \in Objs, h \in Handles, ok \in BOOLEAN, error \in CreateCodes :
          create_with_source(o, h, ok, error)
    \/ \E o \in Objs, options \in OptionStrings,
          ret \in BuildCodes \cup InvalidCodes : build(o, options, ret)

Spec == Init /\ [][Next]_vars

InitSort ==
    /\ ProgInit
    /\ pc = "start"
    /\ iter \in IteratorTypes
    /\ T \in ValueTypes
    /\ cmp \in CompareTypes
    /\ input \in Ranges
    /\ data = input
    /\ path = <<>>

NextSort ==
    \/ stable_sort
    \/ stable_sort_default

SpecSort == InitSort /\ [][NextSort]_vars

\* ================================================================= claims
\* Number of live program objects wrapping handle h.
Wrappers(h) == Cardinality({o \in Objs : live[o] /\ m_program[o] = h})

CountsMatch == \A h \in Handles : refcount[h] = Wrappers(h)

\* Permutations of 1 .. n.
Perms(n) == {p \in [1 .. n -> 1 .. n] : \A i, j \in 1 .. n : i # j => p[i] # p[j]}

Equivalent(c, t, a, b) == ~Compare(c, t, a, b) /\ ~Compare(c, t, b, a)

\* out is in, reordered by compare, equivalent values in their input order.
StablySorted(in, out, c, t) ==
    /\ Len(out) = Len(in)
    /\ \E p \in Perms(Len(in)) :
          /\ \A i \in 1 .. Len(in) : out[i] = in[p[i]]
          /\ \A i, j \in 1 .. Len(in) :
                i < j => /\ ~Compare(c, t, out[j], out[i])
                         /\ Equivalent(c, t, out[i], out[j]) => p[i] < p[j]

\* C1: after stable_sort(first, last, compare, queue) the range is a
\* permutation of its input, ordered by compare, with compare-equivalent
\* values in their input order, on every dispatch path.
C1_StableOnEveryPath ==
    pc = "done" => StablySorted(input, data, cmp, T)

\* Over integers, where compare-equivalent values are identical, every
\* dispatch path leaves the range stably sorted.
StableOverIntegers ==
    (pc = "done" /\ T = "int_") => StablySorted(input, data, cmp, T)

\* With a floating-point T, greater<T> and the range (-0, +0): the
\* radix-sort-then-reverse path has swapped the two zeros.
ZerosSwappedByReverse ==
    /\ pc = "done"
    /\ T = "float_"
    /\ cmp = "greater"
    /\ path = <<"radix_sort", "reverse">>
    /\ input = <<2, 0>>
    /\ data = <<0, 2>>

\* C2: build(options) throws opencl_error carrying the return code of
\* clBuildProgram exactly when that code is not CL_SUCCESS, and an empty
\* options string reaches the runtime as a null pointer.
C2_BuildThrowsOnFailure ==
    built.called =>
        /\ thrown.raised <=> built.ret # CL_SUCCESS
        /\ thrown.raised => thrown.code = built.ret
        /\ built.options = "" => built.null
        /\ built.options # "" => ~built.null /\ built.str = built.options

C2_Witness ==
    /\ built.called
    /\ built.options = ""
    /\ built.null
    /\ thrown.raised
    /\ thrown.code = -11

\* C3: program(handle, retain) retains handle exactly once when retain is
\* true and handle is non-null (the count of a valid handle goes up by
\* one), makes no runtime call and leaves every count alone otherwise, and
\* the new object wraps handle.
C3_HandleCtorRetains ==
    [][lastOp'.op = "program(handle)" =>
         LET o == lastOp'.self
             h == lastOp'.handle
         IN  /\ ~live[o] /\ live'[o]
             /\ m_program'[o] = h
             /\ IF lastOp'.retain /\ h # NULL
                THEN /\ calls' = <<Call("clRetainProgram", h)>>
                     /\ refcount[h] > 0 =>
                            refcount' = [refcount EXCEPT ![h] = @ + 1]
                ELSE /\ calls' = <<>>
                     /\ refcount' = refcount]_vars

C3_Witness ==
    /\ lastOp.op = "program(handle)"
    /\ lastOp.retain
    /\ lastOp.handle # NULL
    /\ calls = <<Call("clRetainProgram", lastOp.handle)>>
    /\ refcount[lastOp.handle] = 2
    /\ ~invalid

\* C4: a = b makes a wrap b's handle, releases a's old handle exactly once
\* if it is non-null, retains b's handle exactly once if it is non-null and
\* leaves b and every other object unchanged; a = a makes no runtime call
\* and changes nothing.
C4_CopyAssign ==
    [][lastOp'.op = "operator=(copy)" =>
         LET a == lastOp'.self
             b == lastOp'.other
             old == m_program[a]
             new == m_program[b]
         IN  /\ live' = live
             /\ \A o \in Objs \ {a} : m_program'[o] = m_program[o]
             /\ m_program'[a] = m_program'[b]
             /\ IF a = b
                THEN /\ calls' = <<>>
                     /\ refcount' = refcount
                     /\ m_program' = m_program
                ELSE /\ calls' =
                          (IF old # NULL
                           THEN <<Call("clReleaseProgram", old)>> ELSE <<>>)
                          \o (IF new # NULL
                              THEN <<Call("clRetainProgram", new)>> ELSE <<>>)
                     /\ (old # NULL /\ old # new /\ refcount[old] > 0) =>
                            refcount'[old] = refcount[old] - 1
                     /\ (new # NULL /\ old # new /\ refcount[new] > 0) =>
                            refcount'[new] = refcount[new] + 1
                     /\ (old = new /\ old # NULL /\ refcount[old] > 1) =>
                            refcount' = refcount]_vars

C4_Witness ==
    /\ lastOp.op = "operator=(copy)"
    /\ lastOp.self # lastOp.other
    /\ lastOp.handle # NULL
    /\ m_program[lastOp.self] # NULL
    /\ m_program[lastOp.self] # lastOp.handle
    /\ m_program[lastOp.self] = m_program[lastOp.other]
    /\ calls = <<Call("clReleaseProgram", lastOp.handle),
                 Call("clRetainProgram", m_program[lastOp.self])>>
    /\ refcount[lastOp.handle] = 0
    /\ refcount[m_program[lastOp.self]] = 2

\* C5: stable_sort calls radix_sort exactly for buffer_iterator<T> with T
\* radix-sortable and less<T> or greater<T> (for greater<T> followed by
\* reverse), serial_insertion_sort with the comparator otherwise; without
\* a comparator it does what it does for less<value_type>.
C5_Dispatch ==
    LET radix == iter = "buffer_iterator" /\ T \in {"int_", "float_"}
        with(c) ==
            IF radix /\ c = "less"
            THEN path = <<"radix_sort">> /\ data = radix_sort(input, T)
            ELSE IF radix /\ c = "greater"
            THEN /\ path = <<"radix_sort", "reverse">>
                 /\ data = reverse(radix_sort(input, T))
            ELSE /\ path = <<"serial_insertion_sort">>
                 /\ data = serial_insertion_sort(input, c, T)
    IN  /\ pc = "done" => with(cmp)
        /\ pc = "overload done" => with("less")

C5_Witness ==
    /\ pc = "done"
    /\ path = <<"radix_sort", "reverse">>
    /\ Len(data) >= 2
    /\ data # input

\* C6 as claimed: after any sequence of constructions (from a handle
\* included), assignments and destructions the count of every handle is the
\* number of live program objects wrapping it.
C6_CountsAlwaysMatch == CountsMatch

\* The latest operation was program(handle, false) on a non-null handle.
AdoptedHandle ==
    lastOp.op = "program(handle)" /\ ~lastOp.retain /\ lastOp.handle # NULL

\* C6: every operation other than program(handle, false) on a non-null
\* handle keeps each count equal to the number of live program objects
\* wrapping the handle, and in doing so retains and releases valid handles
\* only.
C6_CountsMatchUnlessAdopted ==
    [][(CountsMatch /\ ~AdoptedHandle') => (CountsMatch' /\ ~invalid')]_vars

C6_Witness ==
    /\ CountsMatch
    /\ lastOp.op = "operator=(move)"
    /\ lastOp.self # lastOp.other
    /\ lastOp.handle # NULL
    /\ refcount[lastOp.handle] = 0
    /\ \E h \in Handles : refcount[h] = 2

====
